---------------------------- MODULE Spec2Model ----------------------------
(***************************************************************************)
(* A model of toytcp (src/toytcp/src/tcp.rs, src/toytcp/src/socket.rs):    *)
(* two TCP instances (one per host), each with its socket table behind a   *)
(* RwLock, its single event slot, its receive thread and its timer thread, *)
(* application threads that call the public API, and an IP network that    *)
(* delays and reorders segments.  A segment the network loses is one that  *)
(* stays in flight for ever.                                               *)
(*                                                                         *)
(* Granularity.  Sequence numbers, windows and sizes are in bytes, as in   *)
(* the source.  Payloads and the receive buffer are sequences of cells of  *)
(* Unit bytes each; every buffer the applications pass is a whole number   *)
(* of cells.  A cell value > 0 names one run of Unit payload bytes, 0 is   *)
(* the content of a buffer cell no payload was ever copied to.             *)
(*                                                                         *)
(* Atomicity.  Every section of code that runs with the table write lock   *)
(* held is one action.  The events such a section publishes go through     *)
(* pubq: the section's thread still holds the table lock while it has      *)
(* events to publish, and only wait_event (which needs the event mutex,    *)
(* not the table lock) can run in between.                                 *)
(*                                                                         *)
(* Arithmetic.  The target is a 64-bit build.  A u32/usize subtraction     *)
(* that underflows panics (overflow checks) or wraps into an index far     *)
(* outside the receive buffer, which panics at the slice: both builds end  *)
(* in a panic of the thread, which is what the model records.              *)
(***************************************************************************)
EXTENDS Integers, Sequences, FiniteSets, TLC

VARIABLES
    sockets,    \* TCP.sockets of each instance: [host -> [SockID -> Socket]]
    event,      \* TCP.event_condvar's slot of each instance: None or TCPEvent
    pubq,       \* events the lock-holding receive/timer thread has yet to publish
    poisoned,   \* the table RwLock is poisoned: a thread panicked holding it
    net,        \* segments in flight on the IP network
    th,         \* the application threads: script, position, locals
    elapsesLeft,\* how many more times an RTO may expire (bounds the run)
    hist        \* history variables: what was returned, what was established,
                \* whether the timer retransmitted, whether send or close was used

vars == <<sockets, event, pubq, poisoned, net, th, elapsesLeft, hist>>

---------------------------------------------------------------------------
(* Program constants *)

SOCKET_BUFFER_SIZE == 4380
MSS == 1460
MAX_TRANSMITTION == 5
UNDETERMINED_PORT == 0
PORT_RANGE_START == 40000
PORT_RANGE_END == 60000
U16 == 65536

UNDETERMINED_IP_ADDR == "0.0.0.0"

SYN == "SYN"
ACK == "ACK"
FIN == "FIN"

(* Bounds of the model *)

MaxElapse == 1         \* RTO expiries in the runs that bound them
MaxRetry == 5          \* RTO expiries in the runs that reach the retry cap

Unit == MSS \div 2     \* bytes per payload cell
BufCells == SOCKET_BUFFER_SIZE \div Unit

None == "none"     \* no panic, no error
NoKey == <<>>       \* Option<SockID>::None, or no SockID yet

CLIENT_IP == "10.0.0.1"
SERVER_IP == "10.0.0.2"
Hosts == {CLIENT_IP, SERVER_IP}
ListenPort == 9000     \* the port the server listens on
\* rng.gen_range(PORT_RANGE), sampled: what select_unused_port may draw
PortA == {PORT_RANGE_START}
PortB == {PORT_RANGE_START + 1}
OnePort == PortA
TwoPorts == PortA \cup PortB
\* rng.gen_range(1..1 << 31), sampled: what connect may draw, and what
\* listen_handler may draw (the same value as the peer, or another)
SeqA == {100}
SeqB == {300}
ConnectSeqs == SeqA \cup SeqB
ListenSeqs == SeqB
DataCells == {1, 5}            \* lengths, in cells, of the buffers passed to send
RecvSizes == {Unit, 2 * MSS}   \* lengths of the buffers passed to recv

Threads == {"c1", "c2", "s1", "s2"}
HostOf(t) == IF t \in {"c1", "c2"} THEN CLIENT_IP ELSE SERVER_IP

Min(a, b) == IF a < b THEN a ELSE b
Max(a, b) == IF a > b THEN a ELSE b

---------------------------------------------------------------------------
(* socket.rs *)

SockID(la, ra, lp, rp) == <<la, ra, lp, rp>>

\* Socket::new
NewSocket(local_addr, remote_addr, local_port, remote_port, status) ==
    [ local_addr |-> local_addr,
      remote_addr |-> remote_addr,
      local_port |-> local_port,
      remote_port |-> remote_port,
      send_param |-> [unacked_seq |-> 0, initial_seq |-> 0, next |-> 0,
                      window |-> SOCKET_BUFFER_SIZE],
      recv_param |-> [initial_seq |-> 0, next |-> 0,
                      window |-> SOCKET_BUFFER_SIZE, tail |-> 0],
      status |-> status,
      recv_buffer |-> [i \in 1..BufCells |-> 0],
      retransmission_queue |-> <<>>,
      connected_connection_euque |-> <<>>,
      listening_socket |-> NoKey,
      \* history: filled[i] iff recv_buffer[i] holds payload bytes that were
      \* copied from a segment and not yet returned by recv
      filled |-> [i \in 1..BufCells |-> FALSE] ]

get_sock_id(s) == SockID(s.local_addr, s.remote_addr, s.local_port, s.remote_port)

\* RetransmissionQueueEntry::new; old stands for
\* latest_transmission_time.elapsed() >= RETRANSMITTION_TIMEOUT
NewEntry(packet) ==
    [packet |-> packet, old |-> FALSE, transmission_count |-> 1]

\* the segment send_tcp_packet builds
MakePacket(s, seq, ack, flag, payload) ==
    [ src_ip |-> s.local_addr, dst_ip |-> s.remote_addr,
      src |-> s.local_port, dest |-> s.remote_port,
      seq |-> seq, ack |-> ack, flag |-> flag,
      window |-> s.recv_param.window, payload |-> payload ]

\* whether send_tcp_packet leaves the segment out of the retransmission queue
\* (NotRetransmittedMut: the defect of queueing every segment)
NotRetransmittedMut(payload, flag) == FALSE
NotRetransmitted(payload, flag) == payload = <<>> /\ flag = {ACK}

\* Socket::send_tcp_packet: the socket afterwards
send_tcp_packet(s, seq, ack, flag, payload) ==
    IF NotRetransmitted(payload, flag)
    THEN s
    ELSE [s EXCEPT !.retransmission_queue =
              Append(@, NewEntry(MakePacket(s, seq, ack, flag, payload)))]

---------------------------------------------------------------------------
(* tcp.rs: the events *)

TCPEvent(sock_id, kind) == [sock_id |-> sock_id, kind |-> kind]
NoEvent == TCPEvent(NoKey, "None")      \* the slot holds Option::None
ConnectionCompleted == "ConnectionCompleted"
Acked == "Acked"
DataArrived == "DataArrived"
ConnectionClosed == "ConnectionClosed"

\* what a handler hands back: the socket, the events it published in order,
\* the segments it emitted, and None or the reason it panicked
Res(s, pubs, out, panic) == [sock |-> s, pubs |-> pubs, out |-> out, panic |-> panic]

PayloadLen(packet) == Len(packet.payload) * Unit

\* delete_acked_segment_from_retransmission_queue
RECURSIVE delete_acked(_, _)
delete_acked(s, pubs) ==
    IF s.retransmission_queue = <<>>
    THEN [sock |-> s, pubs |-> pubs]
    ELSE LET item == Head(s.retransmission_queue) IN
         IF s.send_param.unacked_seq > item.packet.seq
         THEN delete_acked(
                [s EXCEPT !.retransmission_queue = Tail(@),
                          !.send_param.window = @ + PayloadLen(item.packet)],
                Append(pubs, TCPEvent(get_sock_id(s), Acked)))
         ELSE [sock |-> s, pubs |-> pubs]


\* the TcpStatus values
Listen == "Listen"
SynSent == "SynSent"
SynRcvd == "SynRcvd"
Established == "Established"
FinWait1 == "FinWait1"
FinWait2 == "FinWait2"
TimeWait == "TimeWait"
CloseWait == "CloseWait"
LastAck == "LastAck"

\* the pure ACK (seq = send.next, ack = recv.next) the handlers answer with
PureAck(s) == MakePacket(s, s.send_param.next, s.recv_param.next, {ACK}, <<>>)
SendPureAck(s) ==
    send_tcp_packet(s, s.send_param.next, s.recv_param.next, {ACK}, <<>>)

\* process_payload's step for an in-order segment: recv.next and recv.window
\* (AdvanceInOrderMut: the defect of lowering recv.window by one cell
\* whatever was taken)
AdvanceInOrderMut(rp, seq, tail) ==
    [rp EXCEPT !.tail = tail, !.next = tail, !.window = @ - Unit]
AdvanceInOrder(rp, seq, tail) ==
    [rp EXCEPT !.tail = tail, !.next = tail, !.window = @ - (tail - seq)]

\* process_payload
process_payload(s, packet) ==
    LET rp == s.recv_param
        seq == packet.seq
    IN
    IF seq < rp.next
    THEN Res(s, <<>>, {}, "seq - recv.next underflows")
    ELSE
    LET offset == SOCKET_BUFFER_SIZE - rp.window + (seq - rp.next) IN
    IF offset > SOCKET_BUFFER_SIZE
    THEN Res(s, <<>>, {}, "recv_buffer.len() - offset underflows")
    ELSE IF offset % Unit # 0
    THEN Res(s, <<>>, {}, "offset is not a whole number of cells")
    ELSE
    LET copy_size == Min(PayloadLen(packet), SOCKET_BUFFER_SIZE - offset)
        first == offset \div Unit
        cells == copy_size \div Unit
        buf == [i \in 1..BufCells |->
                  IF first < i /\ i <= first + cells
                  THEN packet.payload[i - first] ELSE s.recv_buffer[i]]
        fil == [i \in 1..BufCells |->
                  (first < i /\ i <= first + cells) \/ s.filled[i]]
        tail == Max(rp.tail, seq + copy_size)
    IN
    IF seq = rp.next /\ (tail - seq) % U16 > rp.window
    THEN Res(s, <<>>, {}, "recv.window underflows")
    ELSE
    LET rp2 == IF seq = rp.next
               THEN AdvanceInOrder(rp, seq, tail)
               ELSE [rp EXCEPT !.tail = tail]
        s2 == [s EXCEPT !.recv_buffer = buf, !.filled = fil, !.recv_param = rp2]
        ev == <<TCPEvent(get_sock_id(s), DataArrived)>>
    IN
    IF copy_size > 0
    THEN Res(SendPureAck(s2), ev, {PureAck(s2)}, None)
    ELSE Res(s2, ev, {}, None)

\* the ACK accounting established_handler and finwait_handler begin with
AckAcceptable(s, packet) ==
    /\ s.send_param.unacked_seq < packet.ack
    /\ packet.ack <= s.send_param.next

AckAccounting(s, packet) ==
    IF AckAcceptable(s, packet)
    THEN delete_acked([s EXCEPT !.send_param.unacked_seq = packet.ack], <<>>)
    ELSE [sock |-> s, pubs |-> <<>>]

\* established_handler
established_handler(s, packet) ==
    LET r1 == AckAccounting(s, packet) IN
    IF ~AckAcceptable(s, packet) /\ s.send_param.next < packet.ack
    THEN Res(s, <<>>, {}, None)
    ELSE IF ACK \notin packet.flag
    THEN Res(r1.sock, r1.pubs, {}, None)
    ELSE
    LET r2 == IF packet.payload # <<>>
              THEN process_payload(r1.sock, packet)
              ELSE Res(r1.sock, <<>>, {}, None)
    IN
    IF r2.panic # None \/ FIN \notin packet.flag
    THEN Res(r2.sock, r1.pubs \o r2.pubs, r2.out, r2.panic)
    ELSE
    LET s3 == [r2.sock EXCEPT !.recv_param.next = packet.seq + 1]
        s4 == [SendPureAck(s3) EXCEPT !.status = CloseWait]
    IN Res(s4,
           r1.pubs \o r2.pubs \o <<TCPEvent(get_sock_id(s), DataArrived)>>,
           r2.out \cup {PureAck(s3)}, None)

\* finwait_handler
finwait_handler(s, packet) ==
    LET r1 == AckAccounting(s, packet) IN
    IF ~AckAcceptable(s, packet) /\ s.send_param.next < packet.ack
    THEN Res(s, <<>>, {}, None)
    ELSE
    LET r2 == IF packet.payload # <<>>
              THEN process_payload(r1.sock, packet)
              ELSE Res(r1.sock, <<>>, {}, None)
    IN
    IF r2.panic # None
    THEN Res(r2.sock, r1.pubs \o r2.pubs, r2.out, r2.panic)
    ELSE
    LET s3 == IF r2.sock.status = FinWait1
                 /\ r2.sock.send_param.next = r2.sock.send_param.unacked_seq
              THEN [r2.sock EXCEPT !.status = FinWait2]
              ELSE r2.sock
    IN
    IF FIN \notin packet.flag
    THEN Res(s3, r1.pubs \o r2.pubs, r2.out, None)
    ELSE
    LET s4 == [s3 EXCEPT !.recv_param.next = @ + 1] IN
    Res(SendPureAck(s4),
        r1.pubs \o r2.pubs \o <<TCPEvent(get_sock_id(s), ConnectionClosed)>>,
        r2.out \cup {PureAck(s4)}, None)

\* close_handler
close_handler(s, packet) ==
    Res([s EXCEPT !.send_param.unacked_seq = packet.ack], <<>>, {}, None)

\* synsent_handler: what the accepted SYN|ACK sets
\* (SynAckParamsMut: the defect of not counting the peer's SYN in recv.next)
SynAckParamsMut(s, packet) ==
    [s EXCEPT !.recv_param.next = packet.seq,
              !.recv_param.initial_seq = packet.seq,
              !.send_param.unacked_seq = packet.ack,
              !.send_param.window = packet.window]
SynAckParams(s, packet) ==
    [s EXCEPT !.recv_param.next = packet.seq + 1,
              !.recv_param.initial_seq = packet.seq,
              !.send_param.unacked_seq = packet.ack,
              !.send_param.window = packet.window]

\* synsent_handler
synsent_handler(s, packet) ==
    IF /\ ACK \in packet.flag
       /\ s.send_param.unacked_seq <= packet.ack
       /\ packet.ack <= s.send_param.next
       /\ SYN \in packet.flag
    THEN
      LET s1 == SynAckParams(s, packet) IN
      IF s1.send_param.unacked_seq > s1.send_param.initial_seq
      THEN LET s2 == [s1 EXCEPT !.status = Established] IN
           Res(SendPureAck(s2),
               <<TCPEvent(get_sock_id(s), ConnectionCompleted)>>,
               {PureAck(s2)}, None)
      ELSE LET s2 == [s1 EXCEPT !.status = SynRcvd] IN
           Res(SendPureAck(s2), <<>>, {PureAck(s2)}, None)
    ELSE Res(s, <<>>, {}, None)

---------------------------------------------------------------------------
(* tcp.rs: the handlers that take the whole table *)

Put(tb, k, s) == [x \in DOMAIN tb \cup {k} |-> IF x = k THEN s ELSE tb[x]]
Del(tb, k) == [x \in DOMAIN tb \ {k} |-> tb[x]]

TRes(tb, pubs, out, panic) == [tb |-> tb, pubs |-> pubs, out |-> out, panic |-> panic]

\* a socket-level handler's result put back into the table
Lift(tb, k, r) == TRes(Put(tb, k, r.sock), r.pubs, r.out, r.panic)

\* listen_handler; iss is rand::thread_rng().gen_range(1..1 << 31)
listen_handler(tb, listening_socket_id, packet, remote_addr, iss) ==
    IF ACK \in packet.flag
    THEN TRes(tb, <<>>, {}, None)
    ELSE IF SYN \notin packet.flag
    THEN TRes(tb, <<>>, {}, None)
    ELSE
    LET ls == tb[listening_socket_id]
        c0 == NewSocket(ls.local_addr, remote_addr, ls.local_port, packet.src, SynRcvd)
        c1 == [c0 EXCEPT !.recv_param.next = packet.seq + 1,
                         !.recv_param.initial_seq = packet.seq,
                         !.send_param.initial_seq = iss,
                         !.send_param.window = packet.window]
        pk == MakePacket(c1, iss, c1.recv_param.next, {SYN, ACK}, <<>>)
        c2 == send_tcp_packet(c1, iss, c1.recv_param.next, {SYN, ACK}, <<>>)
        c3 == [c2 EXCEPT !.send_param.next = iss + 1,
                         !.send_param.unacked_seq = iss,
                         !.listening_socket = get_sock_id(ls)]
    IN TRes(Put(tb, get_sock_id(c3), c3), <<>>, {pk}, None)

\* where synrcvd_handler puts the key of the connection that completed
PushConnected(q, sock_id) == Append(q, sock_id)

\* synrcvd_handler
synrcvd_handler(tb, sock_id, packet) ==
    LET s == tb[sock_id] IN
    IF /\ ACK \in packet.flag
       /\ s.send_param.unacked_seq <= packet.ack
       /\ packet.ack <= s.send_param.next
    THEN
      LET s1 == [s EXCEPT !.recv_param.next = packet.seq,
                          !.send_param.unacked_seq = packet.ack,
                          !.status = Established]
          tb1 == Put(tb, sock_id, s1)
          id == s1.listening_socket
      IN
      IF id = NoKey
      THEN TRes(tb1, <<>>, {}, None)
      ELSE IF id \notin DOMAIN tb1
      THEN TRes(tb1, <<>>, {}, "table.get_mut(listening socket) is None")
      ELSE TRes([tb1 EXCEPT ![id].connected_connection_euque =
                                PushConnected(@, sock_id)],
                <<TCPEvent(id, ConnectionCompleted)>>, {}, None)
    ELSE TRes(tb, <<>>, {}, None)

\* receive_handler's lookup: the exact key, else the listening socket's key
\* (RouteMut: the defect of looking for the listening socket first)
RouteMut(tb, packet) ==
    LET exact == SockID(packet.dst_ip, packet.src_ip, packet.dest, packet.src)
        lst == SockID(packet.dst_ip, UNDETERMINED_IP_ADDR, packet.dest, UNDETERMINED_PORT)
    IN IF lst \in DOMAIN tb THEN lst
       ELSE IF exact \in DOMAIN tb THEN exact
       ELSE NoKey
Route(tb, packet) ==
    LET exact == SockID(packet.dst_ip, packet.src_ip, packet.dest, packet.src)
        lst == SockID(packet.dst_ip, UNDETERMINED_IP_ADDR, packet.dest, UNDETERMINED_PORT)
    IN IF exact \in DOMAIN tb THEN exact
       ELSE IF lst \in DOMAIN tb THEN lst
       ELSE NoKey

\* receive_handler's dispatch on the socket's status
Dispatch(tb, k, packet, iss) ==
    LET st == tb[k].status IN
    IF st = Listen THEN listen_handler(tb, k, packet, packet.src_ip, iss)
    ELSE IF st = SynRcvd THEN synrcvd_handler(tb, k, packet)
    ELSE IF st = SynSent THEN Lift(tb, k, synsent_handler(tb[k], packet))
    ELSE IF st = Established THEN Lift(tb, k, established_handler(tb[k], packet))
    ELSE IF st \in {CloseWait, LastAck} THEN Lift(tb, k, close_handler(tb[k], packet))
    ELSE IF st \in {FinWait1, FinWait2} THEN Lift(tb, k, finwait_handler(tb[k], packet))
    ELSE TRes(tb, <<>>, {}, None)

\* the segments that reach the wire towards a host of the model
Wire(out) == {g \in out : g.dst_ip \in Hosts}

\* the positions between two steps of an application thread at which it
\* holds the guard of self.sockets: none, every wait_event comes after
\* drop(table) or before the lock is taken
\* (GuardPcsMut: the defect of recv waiting with the guard held)
GuardPcsMut == {"recv_wait"}
GuardPcs == {}
TableGuard(t) == th[t].pc \in GuardPcs

\* the table lock of instance h can be taken
LockFree(h) ==
    /\ pubq[h] = <<>>
    /\ ~poisoned[h]
    /\ \A t \in Threads : HostOf(t) = h => ~TableGuard(t)

---------------------------------------------------------------------------
(* tcp.rs: the timer *)

\* timer's while-let loop over one socket's retransmission queue
\* timer: whether an entry that timed out is sent again
\* (MayRetransmitMut: the defect of one transmission too many)
MayRetransmitMut(transmission_count) == transmission_count <= MAX_TRANSMITTION
MayRetransmit(transmission_count) == transmission_count < MAX_TRANSMITTION

RECURSIVE timer_socket(_, _, _)
timer_socket(s, pubs, out) ==
    IF s.retransmission_queue = <<>>
    THEN Res(s, pubs, out, None)
    ELSE
    LET item == Head(s.retransmission_queue)
        s0 == [s EXCEPT !.retransmission_queue = Tail(@)]
        id == get_sock_id(s)
    IN
    IF s.send_param.unacked_seq > item.packet.seq
    THEN timer_socket(
           [s0 EXCEPT !.send_param.window = @ + PayloadLen(item.packet)],
           pubs \o <<TCPEvent(id, Acked)>>
                \o (IF FIN \in item.packet.flag /\ s.status = LastAck
                    THEN <<TCPEvent(id, ConnectionClosed)>> ELSE <<>>),
           out)
    ELSE IF ~item.old
    THEN Res(s, pubs, out, None)
    ELSE IF MayRetransmit(item.transmission_count)
    THEN Res([s0 EXCEPT !.retransmission_queue =
                 Append(@, [item EXCEPT !.transmission_count = @ + 1,
                                        !.old = FALSE])],
             pubs, out \cup {item.packet}, None)
    ELSE timer_socket(
           s0,
           pubs \o (IF FIN \in item.packet.flag
                       /\ s.status \in {LastAck, FinWait1, FinWait2}
                    THEN <<TCPEvent(id, ConnectionClosed)>> ELSE <<>>),
           out)

RECURSIVE Concat(_, _)
Concat(f, order) ==
    IF order = <<>> THEN <<>> ELSE f[Head(order)] \o Concat(f, Tail(order))

\* the orders in which table.iter_mut() may visit the keys of S
Orders(S) == {o \in [1..Cardinality(S) -> S] : \A i, j \in DOMAIN o : i # j => o[i] # o[j]}

---------------------------------------------------------------------------
(* The application threads.  A thread runs its script ops front to back;  *)
(* pc is where it stands inside the call at the front.                     *)

Thread(ops, lsrc, ksrc) ==
    [ ops |-> ops, pc |-> "start",
      lsrc |-> lsrc,    \* the thread whose listening SockID this one uses
      ksrc |-> ksrc,    \* the thread whose connection SockID this one uses
      lkey |-> NoKey,   \* the SockID listen returned
      key |-> NoKey,    \* the SockID connect or accept returned
      id |-> NoKey,     \* connect: the SockID of the socket being opened
      sock |-> <<>>,    \* connect: <<the Socket built and not yet inserted>>
      cursor |-> 0,     \* send: bytes of the buffer handed over so far
      ret |-> None ]    \* the error the script stopped with

\* ports, seqs: what rng may draw for the local port and for the ISS
OpConnect(ports, seqs) == [op |-> "connect", ports |-> ports, seqs |-> seqs]
OpListen == [op |-> "listen"]
OpAccept == [op |-> "accept"]
OpSend(buf) == [op |-> "send", buf |-> buf]
OpRecv(loop) == [op |-> "recv", loop |-> loop]  \* loop: call again until it returns 0
OpClose(on) == [op |-> "close", on |-> on]      \* on: "key" or "lkey"

At(t, op, pc) ==
    /\ th[t].ops # <<>>
    /\ Head(th[t].ops).op = op
    /\ th[t].pc = pc

LKeyOf(t) == th[th[t].lsrc].lkey
KeyOf(t) == th[th[t].ksrc].key

Return(r) == [r EXCEPT !.ops = Tail(@), !.pc = "start", !.cursor = 0,
                       !.id = NoKey, !.sock = <<>>]
Fail(r, e) == [r EXCEPT !.pc = "failed", !.ret = e]

NoSuchSocket == "no such socket"

\* wait_event: the slot holds the awaited event; the waiter empties it
wait_event(h, sock_id, kind) ==
    /\ event[h] = TCPEvent(sock_id, kind)
    /\ event' = [event EXCEPT ![h] = NoEvent]

\* listen
ListenCall(t) ==
    LET h == HostOf(t)
        s == NewSocket(h, UNDETERMINED_IP_ADDR, ListenPort, UNDETERMINED_PORT, Listen)
    IN
    /\ At(t, "listen", "start")
    /\ LockFree(h)
    /\ sockets' = [sockets EXCEPT ![h] = Put(@, get_sock_id(s), s)]
    /\ th' = [th EXCEPT ![t] = Return([@ EXCEPT !.lkey = get_sock_id(s)])]
    /\ UNCHANGED <<event, pubq, poisoned, net, elapsesLeft, hist>>

\* select_unused_port: the ports it can return
UnusedPorts(tb, ports) == {p \in ports : \A k \in DOMAIN tb : p # k[3]}

\* connect, up to the SYN: the port, the socket, the SYN on the wire
ConnectSyn(t) ==
    LET h == HostOf(t)
        unused == UnusedPorts(sockets[h], Head(th[t].ops).ports)
    IN
    /\ At(t, "connect", "start")
    /\ LockFree(h)
    /\ IF unused = {}
       THEN /\ th' = [th EXCEPT ![t] = Fail(@, "no available port found.")]
            /\ UNCHANGED net
       ELSE \E local_port \in unused, iss \in Head(th[t].ops).seqs :
            LET s0 == [NewSocket(h, SERVER_IP, local_port, ListenPort, SynSent)
                         EXCEPT !.send_param.initial_seq = iss]
                s1 == send_tcp_packet(s0, iss, 0, {SYN}, <<>>)
                s2 == [s1 EXCEPT !.send_param.unacked_seq = iss,
                                 !.send_param.next = iss + 1]
            IN /\ net' = net \cup Wire({MakePacket(s0, iss, 0, {SYN}, <<>>)})
               /\ th' = [th EXCEPT ![t] = [@ EXCEPT !.pc = "connect_insert",
                                                   !.sock = <<s2>>,
                                                   !.id = get_sock_id(s2)]]
    /\ UNCHANGED <<sockets, event, pubq, poisoned, elapsesLeft, hist>>

\* connect: table.insert(sock_id, socket)
ConnectInsert(t) ==
    LET h == HostOf(t) IN
    /\ At(t, "connect", "connect_insert")
    /\ LockFree(h)
    /\ sockets' = [sockets EXCEPT ![h] = Put(@, th[t].id, th[t].sock[1])]
    /\ th' = [th EXCEPT ![t] = [@ EXCEPT !.pc = "connect_wait", !.sock = <<>>]]
    /\ hist' = [hist EXCEPT !.created = @ \cup {[t |-> t, id |-> th[t].id,
                                      iss |-> th[t].sock[1].send_param.initial_seq]}]
    /\ UNCHANGED <<event, pubq, poisoned, net, elapsesLeft>>

\* connect: wait_event(sock_id, ConnectionCompleted) returns; Ok(sock_id)
ConnectWake(t) ==
    /\ At(t, "connect", "connect_wait")
    /\ wait_event(HostOf(t), th[t].id, ConnectionCompleted)
    /\ th' = [th EXCEPT ![t] = Return([@ EXCEPT !.key = th[t].id])]
    /\ UNCHANGED <<sockets, pubq, poisoned, net, elapsesLeft, hist>>

\* accept: wait_event(sock_id, ConnectionCompleted) returns
AcceptWake(t) ==
    /\ At(t, "accept", "start")
    /\ LKeyOf(t) # NoKey
    /\ wait_event(HostOf(t), LKeyOf(t), ConnectionCompleted)
    /\ th' = [th EXCEPT ![t].pc = "accept_pop"]
    /\ UNCHANGED <<sockets, pubq, poisoned, net, elapsesLeft, hist>>

\* the key accept takes from connected_connection_euque, and what it leaves
\* (PopConnectedMut: the defect of taking the newest key)
PopConnectedMut(q) == [key |-> q[Len(q)], rest |-> SubSeq(q, 1, Len(q) - 1)]
PopConnected(q) == [key |-> Head(q), rest |-> Tail(q)]

\* accept: the pop under the table lock
AcceptPop(t) ==
    LET h == HostOf(t)
        l == LKeyOf(t)
    IN
    /\ At(t, "accept", "accept_pop")
    /\ LockFree(h)
    /\ IF l \notin DOMAIN sockets[h]
       THEN /\ th' = [th EXCEPT ![t] = Fail(@, NoSuchSocket)]
            /\ UNCHANGED <<sockets, hist>>
       ELSE IF sockets[h][l].connected_connection_euque = <<>>
       THEN /\ th' = [th EXCEPT ![t] = Fail(@, "no connected socket")]
            /\ UNCHANGED <<sockets, hist>>
       ELSE LET r == PopConnected(sockets[h][l].connected_connection_euque) IN
            /\ sockets' = [sockets EXCEPT ![h][l].connected_connection_euque = r.rest]
            /\ th' = [th EXCEPT ![t] = Return([@ EXCEPT !.key = r.key])]
            /\ hist' = [hist EXCEPT !.accepted = Append(@, [id |-> r.key, listener |-> l])]
    /\ UNCHANGED <<event, pubq, poisoned, net, elapsesLeft>>


\* send: the size of the next fragment
\* (SendSizeMut: the defect of leaving send.window out)
SendSizeMut(window, remaining) == Min(MSS, remaining)
SendSize(window, remaining) == Min(MSS, Min(window, remaining))

\* send: one pass under the table lock: a fragment goes out, or the window
\* is closed and the thread goes to wait for Acked
SendStep(t) ==
    LET h == HostOf(t)
        k == KeyOf(t)
        buffer == Head(th[t].ops).buf
        cursor == th[t].cursor
    IN
    /\ At(t, "send", "start")
    /\ k # NoKey
    /\ LockFree(h)
    /\ IF k \notin DOMAIN sockets[h]
       THEN /\ th' = [th EXCEPT ![t] = Fail(@, NoSuchSocket)]
            /\ UNCHANGED <<sockets, net, hist>>
       ELSE
       LET s == sockets[h][k]
           send_size == SendSize(s.send_param.window, Len(buffer) * Unit - cursor)
           payload == SubSeq(buffer, cursor \div Unit + 1, (cursor + send_size) \div Unit)
           s1 == send_tcp_packet(s, s.send_param.next, s.recv_param.next, {ACK}, payload)
           s2 == [s1 EXCEPT !.send_param.next = @ + send_size,
                            !.send_param.window = @ - send_size]
       IN
       IF send_size = 0
       THEN /\ th' = [th EXCEPT ![t].pc = "send_wait"]
            /\ UNCHANGED <<sockets, net, hist>>
       ELSE /\ sockets' = [sockets EXCEPT ![h][k] = s2]
            /\ hist' = [hist EXCEPT !.used = TRUE, !.sent[t] = @ \o payload]
            /\ net' = net \cup Wire({MakePacket(s, s.send_param.next,
                                               s.recv_param.next, {ACK}, payload)})
            /\ th' = [th EXCEPT ![t] =
                        IF cursor + send_size = Len(buffer) * Unit
                        THEN Return(@)
                        ELSE [@ EXCEPT !.cursor = cursor + send_size]]
    /\ UNCHANGED <<event, pubq, poisoned, elapsesLeft>>

\* send: wait_event(sock_id, Acked) returns
SendWake(t) ==
    /\ At(t, "send", "send_wait")
    /\ wait_event(HostOf(t), KeyOf(t), Acked)
    /\ th' = [th EXCEPT ![t].pc = "start"]
    /\ UNCHANGED <<sockets, pubq, poisoned, net, elapsesLeft, hist>>

\* recv: the states in which it returns 0 instead of waiting for data
\* (RecvEofMut: the defect of not waiting in ESTABLISHED either)
RecvEofMut(status) == status \in {Established, CloseWait, LastAck, TimeWait}
RecvEof(status) == status \in {CloseWait, LastAck, TimeWait}

\* recv: one pass under the table lock: bytes are returned, 0 is returned,
\* or the thread goes to wait for DataArrived
RecvStep(t) ==
    LET h == HostOf(t)
        k == KeyOf(t)
    IN
    /\ At(t, "recv", "start")
    /\ k # NoKey
    /\ LockFree(h)
    /\ IF k \notin DOMAIN sockets[h]
       THEN /\ th' = [th EXCEPT ![t] = Fail(@, NoSuchSocket)]
            /\ UNCHANGED <<sockets, hist>>
       ELSE
       LET s == sockets[h][k]
           received_size == SOCKET_BUFFER_SIZE - s.recv_param.window
       IN
       IF received_size = 0 /\ ~RecvEof(s.status)
       THEN /\ th' = [th EXCEPT ![t].pc = "recv_wait"]
            /\ UNCHANGED <<sockets, hist>>
       ELSE \E buflen \in RecvSizes :
            LET copy_size == Min(buflen, received_size)
                n == copy_size \div Unit
                \* copy_within(copy_size.., 0): the cells move to the front,
                \* the last n cells keep what they held
                buf == [i \in 1..BufCells |->
                          IF i + n <= BufCells THEN s.recv_buffer[i + n]
                          ELSE s.recv_buffer[i]]
                fil == [i \in 1..BufCells |->
                          IF i + n <= BufCells THEN s.filled[i + n] ELSE FALSE]
            IN
            /\ sockets' = [sockets EXCEPT ![h][k] =
                             [s EXCEPT !.recv_buffer = buf, !.filled = fil,
                                       !.recv_param.window = @ + copy_size]]
            /\ hist' = [hist EXCEPT !.recvd[t] = @ \o SubSeq(s.recv_buffer, 1, n)]
            /\ th' = [th EXCEPT ![t] =
                        IF Head(th[t].ops).loop /\ copy_size > 0
                        THEN @ ELSE Return(@)]
    /\ UNCHANGED <<event, pubq, poisoned, net, elapsesLeft>>

\* recv: wait_event(sock_id, DataArrived) returns
RecvWake(t) ==
    /\ At(t, "recv", "recv_wait")
    /\ wait_event(HostOf(t), KeyOf(t), DataArrived)
    /\ th' = [th EXCEPT ![t].pc = "start"]
    /\ UNCHANGED <<sockets, pubq, poisoned, net, elapsesLeft, hist>>

\* the SockID a close op is called with
CloseKey(t) == IF Head(th[t].ops).on = "lkey" THEN LKeyOf(t) ELSE KeyOf(t)

\* close: the FIN|ACK and the match on the status, under the table lock
CloseStep(t) ==
    LET h == HostOf(t)
        k == CloseKey(t)
    IN
    /\ At(t, "close", "start")
    /\ k # NoKey
    /\ LockFree(h)
    /\ IF k \notin DOMAIN sockets[h]
       THEN /\ th' = [th EXCEPT ![t] = Fail(@, NoSuchSocket)]
            /\ UNCHANGED <<sockets, net>>
       ELSE
       LET s == sockets[h][k]
           pk == MakePacket(s, s.send_param.next, s.recv_param.next, {FIN, ACK}, <<>>)
           s1 == send_tcp_packet(s, s.send_param.next, s.recv_param.next, {FIN, ACK}, <<>>)
           s2 == [s1 EXCEPT !.send_param.next = @ + 1]
       IN
       /\ net' = net \cup Wire({pk})
       /\ IF s.status = Established
          THEN /\ sockets' = [sockets EXCEPT ![h][k] = [s2 EXCEPT !.status = FinWait1]]
               /\ th' = [th EXCEPT ![t].pc = "close_wait"]
          ELSE IF s.status = CloseWait
          THEN /\ sockets' = [sockets EXCEPT ![h][k] = [s2 EXCEPT !.status = LastAck]]
               /\ th' = [th EXCEPT ![t].pc = "close_wait"]
          ELSE IF s.status = Listen
          THEN /\ sockets' = [sockets EXCEPT ![h] = Del(@, k)]
               /\ th' = [th EXCEPT ![t] = Return(@)]
          ELSE /\ sockets' = [sockets EXCEPT ![h][k] = s2]
               /\ th' = [th EXCEPT ![t] = Return(@)]
    /\ hist' = [hist EXCEPT !.used = @ \/ sockets' # sockets]
    /\ UNCHANGED <<event, pubq, poisoned, elapsesLeft>>

\* close: wait_event(sock_id, ConnectionClosed) returns
CloseWake(t) ==
    /\ At(t, "close", "close_wait")
    /\ wait_event(HostOf(t), CloseKey(t), ConnectionClosed)
    /\ th' = [th EXCEPT ![t].pc = "close_remove"]
    /\ UNCHANGED <<sockets, pubq, poisoned, net, elapsesLeft, hist>>

\* close: table.remove(&sock_id)
CloseRemove(t) ==
    LET h == HostOf(t) IN
    /\ At(t, "close", "close_remove")
    /\ LockFree(h)
    /\ sockets' = [sockets EXCEPT ![h] = Del(@, CloseKey(t))]
    /\ th' = [th EXCEPT ![t] = Return(@)]
    /\ UNCHANGED <<event, pubq, poisoned, net, elapsesLeft, hist>>

---------------------------------------------------------------------------
(* The receive thread, the timer thread, the clock and the network *)

\* what the history keeps of one step of the receive thread
Observe(h, k, packet, r) ==
    IF k = NoKey \/ k \notin DOMAIN r.tb THEN hist
    ELSE
    LET before == sockets[h][k]
        after == r.tb[k]
    IN
    IF before.status = SynRcvd /\ after.status = Established
       /\ before.listening_socket # NoKey
    THEN [hist EXCEPT !.estab = Append(@, [id |-> k,
                                           listener |-> before.listening_socket])]
    ELSE IF before.status = SynSent /\ after.status = Established
    THEN [hist EXCEPT !.active = @ \cup
            {[id |-> k, iss |-> before.send_param.initial_seq,
              una |-> before.send_param.unacked_seq,
              next |-> before.send_param.next,
              seq |-> packet.seq, ack |-> packet.ack,
              rnext |-> after.recv_param.next, out |-> r.out]}]
    ELSE hist

\* receive_handler: one pass of its loop, for the segment g taken off the wire
Receive(g) ==
    LET h == g.dst_ip
        k == Route(sockets[h], g)
    IN
    /\ g \in net
    /\ h \in Hosts
    /\ LockFree(h)
    /\ \E iss \in (IF k # NoKey /\ sockets[h][k].status = Listen
                      /\ ACK \notin g.flag /\ SYN \in g.flag
                   THEN ListenSeqs ELSE {0}) :
         LET r == IF k = NoKey THEN TRes(sockets[h], <<>>, {}, None)
                  ELSE Dispatch(sockets[h], k, g, iss)
         IN /\ sockets' = [sockets EXCEPT ![h] = r.tb]
            /\ pubq' = [pubq EXCEPT ![h] = r.pubs]
            /\ poisoned' = [poisoned EXCEPT ![h] = r.panic # None]
            /\ net' = (net \ {g}) \cup Wire(r.out)
            /\ hist' = Observe(h, k, g, r)
    /\ UNCHANGED <<event, th, elapsesLeft>>

\* publish_event, by the thread that holds the table lock
Publish(h) ==
    /\ pubq[h] # <<>>
    /\ event' = [event EXCEPT ![h] = Head(pubq[h])]
    /\ pubq' = [pubq EXCEPT ![h] = Tail(@)]
    /\ UNCHANGED <<sockets, poisoned, net, th, elapsesLeft, hist>>

\* timer: one pass over the table
Timer(h) ==
    LET tb == sockets[h]
        r == [k \in DOMAIN tb |-> timer_socket(tb[k], <<>>, {})]
        tb2 == [k \in DOMAIN tb |-> r[k].sock]
        out == UNION {r[k].out : k \in DOMAIN tb}
        pubs == [k \in DOMAIN tb |-> r[k].pubs]
    IN
    /\ LockFree(h)
    /\ tb2 # tb
    /\ \E order \in Orders({k \in DOMAIN tb : pubs[k] # <<>>}) :
         pubq' = [pubq EXCEPT ![h] = Concat(pubs, order)]
    /\ sockets' = [sockets EXCEPT ![h] = tb2]
    /\ net' = net \cup Wire(out)
    /\ hist' = [hist EXCEPT !.retx = @ \/ out # {}]
    /\ UNCHANGED <<event, poisoned, th, elapsesLeft>>

Aged(q) == [i \in DOMAIN q |-> [q[i] EXCEPT !.old = TRUE]]

\* RETRANSMITTION_TIMEOUT goes by with no thread running
Elapse ==
    /\ elapsesLeft > 0
    /\ \/ \E h \in Hosts : \E k \in DOMAIN sockets[h] :
            \E i \in DOMAIN sockets[h][k].retransmission_queue :
                ~sockets[h][k].retransmission_queue[i].old
       \/ \E t \in Threads : th[t].sock # <<>>
    /\ elapsesLeft' = elapsesLeft - 1
    /\ sockets' = [h \in Hosts |-> [k \in DOMAIN sockets[h] |->
                     [sockets[h][k] EXCEPT !.retransmission_queue = Aged(@)]]]
    /\ th' = [t \in Threads |->
                IF th[t].sock = <<>> THEN th[t]
                ELSE [th[t] EXCEPT !.sock[1].retransmission_queue = Aged(@)]]
    /\ UNCHANGED <<event, pubq, poisoned, net, hist>>

---------------------------------------------------------------------------
(* The specifications *)

Idle == Thread(<<>>, "c1", "c1")

InitWith(threads, elapses) ==
    /\ sockets = [h \in Hosts |-> <<>>]
    /\ event = [h \in Hosts |-> NoEvent]
    /\ pubq = [h \in Hosts |-> <<>>]
    /\ poisoned = [h \in Hosts |-> FALSE]
    /\ net = {}
    /\ th = threads
    /\ elapsesLeft = elapses
    /\ hist = [ recvd |-> [t \in Threads |-> <<>>],
                sent |-> [t \in Threads |-> <<>>],
                accepted |-> <<>>, created |-> {}, estab |-> <<>>,
                active |-> {}, retx |-> FALSE, used |-> FALSE ]

\* the buffer of n cells an application sends: cell i holds payload run i
Data(n) == [i \in 1..n |-> i]

\* one connection opened, used for one cell of data and closed, over a
\* network that delays and reorders, with retransmissions
Init ==
    InitWith([t \in Threads |->
                CASE t = "c1" -> Thread(<<OpConnect(OnePort, SeqA), OpSend(Data(1)),
                                          OpClose("key")>>,
                                        "c1", "c1")
                  [] t = "s1" -> Thread(<<OpListen, OpAccept, OpRecv(TRUE),
                                          OpClose("key")>>, "s1", "s1")
                  [] OTHER -> Idle],
             MaxElapse)

\* the calls that open connections
Opening ==
    \/ \E t \in Threads : ListenCall(t)
    \/ \E t \in Threads : ConnectSyn(t)
    \/ \E t \in Threads : ConnectInsert(t)
    \/ \E t \in Threads : ConnectWake(t)
    \/ \E t \in Threads : AcceptWake(t)
    \/ \E t \in Threads : AcceptPop(t)

Receiving ==
    \/ \E t \in Threads : RecvStep(t)
    \/ \E t \in Threads : RecvWake(t)

Sending ==
    \/ \E t \in Threads : SendStep(t)
    \/ \E t \in Threads : SendWake(t)

Closing ==
    \/ \E t \in Threads : CloseStep(t)
    \/ \E t \in Threads : CloseWake(t)
    \/ \E t \in Threads : CloseRemove(t)

\* the receive thread and the timer thread of every instance
Machine ==
    \/ \E g \in net : Receive(g)
    \/ \E h \in Hosts : Publish(h)
    \/ \E h \in Hosts : Timer(h)

Next ==
    \/ Opening
    \/ Receiving
    \/ \E t \in Threads : SendStep(t)
    \/ Closing
    \/ Machine
    \/ Elapse

Spec == Init /\ [][Next]_vars

\* one connection that carries one buffer from the client to the server,
\* over a network that delays and reorders
InitData ==
    \E n \in DataCells :
    InitWith([t \in Threads |->
                CASE t = "c1" -> Thread(<<OpConnect(OnePort, ConnectSeqs), OpSend(Data(n))>>,
                                        "c1", "c1")
                  [] t = "s1" -> Thread(<<OpListen, OpAccept, OpRecv(TRUE)>>,
                                        "s1", "s1")
                  [] OTHER -> Idle],
             0)

NextData ==
    \/ Opening
    \/ Receiving
    \/ \E t \in Threads : SendStep(t)
    \/ Machine

SpecData == InitData /\ [][NextData]_vars

\* two application threads of the client connect at the same time, the
\* server accepts twice, and another thread of the server closes the
\* listening socket at some point
InitTwo ==
    InitWith([t \in Threads |->
                CASE t = "c1" -> Thread(<<OpConnect(TwoPorts, SeqA)>>, "c1", "c1")
                  [] t = "c2" -> Thread(<<OpConnect(TwoPorts, SeqB)>>, "c2", "c2")
                  [] t = "s1" -> Thread(<<OpListen, OpAccept, OpAccept>>, "s1", "s1")
                  [] t = "s2" -> Thread(<<OpClose("lkey")>>, "s1", "s2")],
             0)

NextTwo ==
    \/ Opening
    \/ \E t \in Threads : CloseStep(t)
    \/ Machine

SpecTwo == InitTwo /\ [][NextTwo]_vars

\* two connections to a listening socket that stays open, under fair
\* scheduling: every thread that can take a step eventually takes one
InitAccept ==
    InitWith([t \in Threads |->
                CASE t = "c1" -> Thread(<<OpConnect(PortA, SeqA)>>,
                                        "c1", "c1")
                  [] t = "c2" -> Thread(<<OpConnect(PortB, SeqB)>>,
                                        "c2", "c2")
                  [] t = "s1" -> Thread(<<OpListen, OpAccept, OpAccept>>, "s1", "s1")
                  [] OTHER -> Idle],
             0)

NextAccept ==
    \/ Opening
    \/ Machine

Fairness ==
    /\ \A t \in Threads :
          /\ WF_vars(ListenCall(t))
          /\ WF_vars(ConnectSyn(t))
          /\ WF_vars(ConnectInsert(t))
          /\ WF_vars(ConnectWake(t))
          /\ WF_vars(AcceptWake(t))
          /\ WF_vars(AcceptPop(t))
    /\ WF_vars(\E g \in net : Receive(g))
    /\ \A h \in Hosts : WF_vars(Publish(h)) /\ WF_vars(Timer(h))

SpecAccept == InitAccept /\ [][NextAccept]_vars /\ Fairness

\* two application threads of the client send on the same connection, more
\* than the peer's window takes
InitSend ==
    InitWith([t \in Threads |->
                CASE t = "c1" -> Thread(<<OpConnect(OnePort, SeqA), OpSend(Data(4))>>,
                                        "c1", "c1")
                  [] t = "c2" -> Thread(<<OpSend(Data(3))>>, "c2", "c1")
                  [] t = "s1" -> Thread(<<OpListen>>, "s1", "s1")
                  [] OTHER -> Idle],
             0)

NextSend ==
    \/ \E t \in Threads : ListenCall(t)
    \/ \E t \in Threads : ConnectSyn(t)
    \/ \E t \in Threads : ConnectInsert(t)
    \/ \E t \in Threads : ConnectWake(t)
    \/ Sending
    \/ Machine

SpecSend == InitSend /\ [][NextSend]_vars

\* one connection on which one cell of data is sent, over a network that
\* may lose every segment, for as many RTOs as the retry cap takes
InitRetry ==
    InitWith([t \in Threads |->
                CASE t = "c1" -> Thread(<<OpConnect(OnePort, SeqA), OpSend(Data(1))>>,
                                        "c1", "c1")
                  [] t = "s1" -> Thread(<<OpListen>>, "s1", "s1")
                  [] OTHER -> Idle],
             MaxRetry)

NextRetry ==
    \/ \E t \in Threads : ListenCall(t)
    \/ \E t \in Threads : ConnectSyn(t)
    \/ \E t \in Threads : ConnectInsert(t)
    \/ \E t \in Threads : ConnectWake(t)
    \/ \E t \in Threads : SendStep(t)
    \/ Machine
    \/ Elapse

SpecRetry == InitRetry /\ [][NextRetry]_vars

\* fair scheduling of the receive thread, the timer thread and the threads
\* that open connections.  The receive thread's condition is
\* WF_vars(\E g \in net : Receive(g)) written out: the action is enabled
\* exactly when a segment is in flight to an instance whose table lock can
\* be taken
ReceiveEnabled == \E g \in net : LockFree(g.dst_ip)

FairMachine ==
    /\ \/ []<>(~ReceiveEnabled)
       \/ []<><<\E g \in net : Receive(g)>>_vars
    /\ \A h \in Hosts : WF_vars(Publish(h)) /\ WF_vars(Timer(h))

FairOpening ==
    \A t \in Threads :
        /\ WF_vars(ListenCall(t))
        /\ WF_vars(ConnectSyn(t))
        /\ WF_vars(ConnectInsert(t))
        /\ WF_vars(ConnectWake(t))
        /\ WF_vars(AcceptWake(t))
        /\ WF_vars(AcceptPop(t))

\* fair scheduling of the threads that send, receive and close
FairSending ==
    \A t \in Threads : WF_vars(SendStep(t)) /\ WF_vars(SendWake(t))

FairReceiving ==
    \A t \in Threads : WF_vars(RecvStep(t)) /\ WF_vars(RecvWake(t))

FairClosing ==
    \A t \in Threads :
        /\ WF_vars(CloseStep(t))
        /\ WF_vars(CloseWake(t))
        /\ WF_vars(CloseRemove(t))

\* a client that sends more than the peer's window takes, to a server that
\* answers with one cell of data, under fair scheduling
InitWindow ==
    InitWith([t \in Threads |->
                CASE t = "c1" -> Thread(<<OpConnect(OnePort, SeqA), OpSend(Data(7))>>,
                                        "c1", "c1")
                  [] t = "s1" -> Thread(<<OpListen, OpAccept, OpSend(Data(1))>>,
                                        "s1", "s1")
                  [] OTHER -> Idle],
             0)

NextWindow ==
    \/ Opening
    \/ Sending
    \/ Machine

SpecWindow ==
    InitWindow /\ [][NextWindow]_vars /\ FairMachine /\ FairOpening /\ FairSending

\* one connection that the client closes at once and the server closes when
\* recv has returned 0, under fair scheduling
InitClose ==
    InitWith([t \in Threads |->
                CASE t = "c1" -> Thread(<<OpConnect(OnePort, SeqA), OpClose("key")>>,
                                        "c1", "c1")
                  [] t = "s1" -> Thread(<<OpListen, OpAccept, OpRecv(TRUE),
                                          OpClose("key")>>, "s1", "s1")
                  [] OTHER -> Idle],
             0)

NextClose ==
    \/ Opening
    \/ Receiving
    \/ Closing
    \/ Machine

SpecClose ==
    /\ InitClose /\ [][NextClose]_vars
    /\ FairMachine /\ FairOpening /\ FairReceiving /\ FairClosing

\* the same with a second thread of the client that opens another
\* connection meanwhile
InitCloseTwo ==
    InitWith([t \in Threads |->
                CASE t = "c1" -> Thread(<<OpConnect(PortA, SeqA), OpClose("key")>>,
                                        "c1", "c1")
                  [] t = "c2" -> Thread(<<OpConnect(PortB, SeqB)>>, "c2", "c2")
                  [] t = "s1" -> Thread(<<OpListen, OpAccept, OpRecv(TRUE),
                                          OpClose("key")>>, "s1", "s1")
                  [] OTHER -> Idle],
             0)

SpecCloseTwo ==
    /\ InitCloseTwo /\ [][NextClose]_vars
    /\ FairMachine /\ FairOpening /\ FairReceiving /\ FairClosing

\* one connection on which the server sends one cell of data before it
\* receives and closes, the client closes at once, and one RTO may expire,
\* under fair scheduling
InitLastAck ==
    InitWith([t \in Threads |->
                CASE t = "c1" -> Thread(<<OpConnect(OnePort, SeqA), OpClose("key")>>,
                                        "c1", "c1")
                  [] t = "s1" -> Thread(<<OpListen, OpAccept, OpSend(Data(1)),
                                          OpRecv(TRUE), OpClose("key")>>, "s1", "s1")
                  [] OTHER -> Idle],
             MaxElapse)

NextLastAck ==
    \/ Opening
    \/ Receiving
    \/ \E t \in Threads : SendStep(t)
    \/ Closing
    \/ Machine
    \/ Elapse

SpecLastAck ==
    /\ InitLastAck /\ [][NextLastAck]_vars
    /\ FairMachine /\ FairOpening /\ FairReceiving /\ FairClosing
    /\ \A t \in Threads : WF_vars(SendStep(t))

\* two threads of the client close the same connection
InitCloseAgain ==
    InitWith([t \in Threads |->
                CASE t = "c1" -> Thread(<<OpConnect(OnePort, SeqA), OpClose("key")>>,
                                        "c1", "c1")
                  [] t = "c2" -> Thread(<<OpClose("key")>>, "c2", "c1")
                  [] t = "s1" -> Thread(<<OpListen, OpAccept, OpRecv(TRUE),
                                          OpClose("key")>>, "s1", "s1")
                  [] OTHER -> Idle],
             0)

SpecCloseAgain == InitCloseAgain /\ [][NextClose]_vars

\* calls on keys whose endpoints are gone: the client sends on the
\* connection it has closed while another of its threads is in recv on it,
\* the server accepts on the listening socket it has closed while another of
\* its threads closes the accepted connection; every thread scheduled fairly
InitGone ==
    InitWith([t \in Threads |->
                CASE t = "c1" -> Thread(<<OpConnect(OnePort, SeqA), OpClose("key"),
                                          OpSend(Data(1))>>, "c1", "c1")
                  [] t = "c2" -> Thread(<<OpRecv(FALSE)>>, "c2", "c1")
                  [] t = "s1" -> Thread(<<OpListen, OpAccept, OpRecv(TRUE),
                                          OpClose("key"), OpClose("lkey"),
                                          OpAccept>>, "s1", "s1")
                  [] t = "s2" -> Thread(<<OpClose("key")>>, "s2", "s1")],
             0)

NextGone ==
    \/ Opening
    \/ \E t \in Threads : SendStep(t)
    \/ Receiving
    \/ Closing
    \/ Machine

SpecGone ==
    /\ InitGone
    /\ [][NextGone]_vars
    /\ FairMachine
    /\ FairOpening
    /\ \A t \in Threads : WF_vars(SendStep(t))
    /\ FairReceiving
    /\ FairClosing

\* the instance of host h stops for good: none of its threads takes the
\* table lock again, and what it has already sent is still delivered
PeerStops(h) ==
    /\ \A x \in Hosts : ~poisoned[x]
    /\ poisoned' = [poisoned EXCEPT ![h] = TRUE]
    /\ UNCHANGED <<sockets, event, pubq, net, th, elapsesLeft, hist>>

\* RETRANSMITTION_TIMEOUT goes by, any number of times, once an instance
\* has stopped
Tick ==
    /\ \E h \in Hosts : poisoned[h]
    /\ \E h \in Hosts : \E k \in DOMAIN sockets[h] :
          \E i \in DOMAIN sockets[h][k].retransmission_queue :
              ~sockets[h][k].retransmission_queue[i].old
    /\ sockets' = [h \in Hosts |-> [k \in DOMAIN sockets[h] |->
                     [sockets[h][k] EXCEPT !.retransmission_queue = Aged(@)]]]
    /\ UNCHANGED <<event, pubq, poisoned, net, th, elapsesLeft, hist>>

\* a connection opened and closed from both sides, one side stopping at
\* some moment; from then on time passes and every thread of the other
\* side is scheduled fairly
InitSilent ==
    InitWith([t \in Threads |->
                CASE t = "c1" -> Thread(<<OpConnect(OnePort, SeqA), OpClose("key")>>,
                                        "c1", "c1")
                  [] t = "s1" -> Thread(<<OpListen, OpAccept, OpRecv(TRUE),
                                          OpClose("key")>>, "s1", "s1")
                  [] OTHER -> Idle],
             0)

NextSilent ==
    \/ Opening
    \/ Receiving
    \/ Closing
    \/ Machine
    \/ \E h \in Hosts : PeerStops(h)
    \/ Tick

SpecSilent ==
    /\ InitSilent
    /\ [][NextSilent]_vars
    /\ FairMachine
    /\ FairOpening
    /\ FairReceiving
    /\ FairClosing
    /\ WF_vars(Tick)

\* timer: a pass in which sender.send_to fails for the entry it retransmits
\* on socket order[n].  The sockets visited before it were handled in full;
\* on this one the acknowledged entries before the entry were drained and
\* the entry was popped; unwrap() then panics with the table lock held
TimerSendFails(h) ==
    LET tb == sockets[h]
        r == [k \in DOMAIN tb |-> timer_socket(tb[k], <<>>, {})]
        pubs == [k \in DOMAIN tb |-> r[k].pubs]
    IN
    /\ LockFree(h)
    /\ \E order \in Orders(DOMAIN tb) : \E n \in DOMAIN order :
         LET k == order[n]
             before == {order[i] : i \in 1..(n - 1)}
             q == r[k].sock.retransmission_queue
         IN
         /\ r[k].out # {}
         /\ sockets' = [sockets EXCEPT ![h] =
                [x \in DOMAIN tb |->
                   IF x \in before THEN r[x].sock
                   ELSE IF x = k
                   THEN [r[k].sock EXCEPT !.retransmission_queue =
                                             SubSeq(q, 1, Len(q) - 1)]
                   ELSE tb[x]]]
         /\ pubq' = [pubq EXCEPT ![h] = Concat(pubs, SubSeq(order, 1, n))]
         /\ net' = net \cup Wire(UNION {r[x].out : x \in before})
    /\ poisoned' = [poisoned EXCEPT ![h] = TRUE]
    /\ UNCHANGED <<event, th, elapsesLeft, hist>>

\* the retransmission scenario with a transport that can fail under the timer
NextTxFail ==
    \/ NextRetry
    \/ \E h \in Hosts : TimerSendFails(h)

SpecTxFail == InitRetry /\ [][NextTxFail]_vars

\* a connection on which every call waits: the client sends more than the
\* window takes, the server receives once and closes; every thread
\* scheduled fairly
InitWaits ==
    InitWith([t \in Threads |->
                CASE t = "c1" -> Thread(<<OpConnect(OnePort, SeqA), OpSend(Data(7))>>,
                                        "c1", "c1")
                  [] t = "s1" -> Thread(<<OpListen, OpAccept, OpRecv(FALSE),
                                          OpClose("key")>>, "s1", "s1")
                  [] OTHER -> Idle],
             0)

NextWaits ==
    \/ Opening
    \/ Sending
    \/ Receiving
    \/ \E t \in Threads : CloseStep(t)
    \/ Machine

SpecWaits ==
    /\ InitWaits
    /\ [][NextWaits]_vars
    /\ FairMachine
    /\ FairOpening
    /\ FairSending
    /\ FairReceiving
    /\ \A t \in Threads : WF_vars(CloseStep(t))

---------------------------------------------------------------------------
(* The claims *)

\* the key of the peer's endpoint of connection k
Mirror(k) == SockID(k[2], k[1], k[4], k[3])

IsPrefix(a, b) == Len(a) <= Len(b) /\ \A i \in DOMAIN a : a[i] = b[i]

\* C1: in every reachable state every socket in a table has
\* send.unacked_seq <= send.next (as unsigned 32-bit values)
C1_UnackedLeNext ==
    \A h \in Hosts : \A k \in DOMAIN sockets[h] :
        sockets[h][k].send_param.unacked_seq <= sockets[h][k].send_param.next

\* C2: in every reachable state every entry of every retransmission queue
\* carries payload, SYN or FIN: none is an ACK-only segment without payload
C2_Retransmittable(q) ==
    \A i \in DOMAIN q :
        \/ q[i].packet.payload # <<>>
        \/ SYN \in q[i].packet.flag
        \/ FIN \in q[i].packet.flag
C2_NoPureAckQueued ==
    /\ \A h \in Hosts : \A k \in DOMAIN sockets[h] :
          C2_Retransmittable(sockets[h][k].retransmission_queue)
    /\ \A t \in Threads :
          th[t].sock # <<>> => C2_Retransmittable(th[t].sock[1].retransmission_queue)

\* C2's case: an endpoint that answered with an ACK-only segment (it is in
\* flight) holds its FIN in its retransmission queue and nothing else
C2_Witness ==
    \E h \in Hosts : \E k \in DOMAIN sockets[h] :
        LET s == sockets[h][k] IN
        /\ \E g \in net :
              /\ g.flag = {ACK} /\ g.payload = <<>>
              /\ get_sock_id(s) = SockID(g.src_ip, g.dst_ip, g.src, g.dest)
        /\ Len(s.retransmission_queue) = 1
        /\ FIN \in s.retransmission_queue[1].packet.flag

\* C3: in every reachable state, for every endpoint, recv.window plus the
\* payload bytes that were copied into the receive buffer in order and not
\* yet returned by recv is SOCKET_BUFFER_SIZE, and 0 <= recv.window <= 4380
C3_Undelivered(s) ==
    Unit * Cardinality({i \in 1..BufCells :
                          /\ i <= (SOCKET_BUFFER_SIZE - s.recv_param.window) \div Unit
                          /\ s.filled[i]})
C3_WindowAccounting ==
    \A h \in Hosts : \A k \in DOMAIN sockets[h] :
        LET s == sockets[h][k] IN
        /\ 0 <= s.recv_param.window
        /\ s.recv_param.window <= SOCKET_BUFFER_SIZE
        /\ s.recv_param.window + C3_Undelivered(s) = SOCKET_BUFFER_SIZE

\* C4: after a handshake whose SYN, SYN|ACK and ACK were each delivered once
\* and in order (nothing retransmitted, no send or close yet, the client's
\* ACK delivered), both endpoints are ESTABLISHED, the client's send.next is
\* the server's recv.next and the server's send.next is the client's recv.next
C4_HandshakeDelivered(c) ==
    /\ c.status = Established
    /\ ~hist.retx
    /\ ~hist.used
    /\ PureAck(c) \notin net
C4_CleanHandshake ==
    \A k \in DOMAIN sockets[CLIENT_IP] :
        LET c == sockets[CLIENT_IP][k] IN
        C4_HandshakeDelivered(c) =>
            /\ Mirror(k) \in DOMAIN sockets[SERVER_IP]
            /\ LET s == sockets[SERVER_IP][Mirror(k)] IN
               /\ s.status = Established
               /\ c.send_param.next = s.recv_param.next
               /\ s.send_param.next = c.recv_param.next

\* C4's case: the third segment of a clean handshake has been delivered
C4_Witness ==
    \E k \in DOMAIN sockets[CLIENT_IP] :
        /\ C4_HandshakeDelivered(sockets[CLIENT_IP][k])
        /\ Mirror(k) \in DOMAIN sockets[SERVER_IP]
        /\ sockets[SERVER_IP][Mirror(k)].status = Established

\* C5: what the peer's recv calls have returned so far is, in order, the
\* beginning of what send was given, for every fragmentation and every order
\* of delivery
C5_RoundTrip ==
    IsPrefix(hist.recvd["s1"], hist.sent["c1"])

\* C6: connect has returned a key to a thread only after the endpoint that
\* thread created (SYN_SENT, send.unacked_seq = ISS, send.next = ISS + 1)
\* received a SYN|ACK with ISS < ack <= send.next, became ESTABLISHED with
\* recv.next = seg.seq + 1 and emitted the ACK-only segment seq = ISS + 1,
\* ack = seg.seq + 1; and ConnectionCompleted for a connect's key is
\* published only once an endpoint under that key became ESTABLISHED
C6_Opened(c) ==
    \E a \in hist.active :
        /\ a.id = c.id
        /\ a.iss = c.iss
        /\ a.una = c.iss
        /\ a.next = c.iss + 1
        /\ c.iss < a.ack
        /\ a.ack <= a.next
        /\ a.rnext = a.seq + 1
        /\ \E g \in a.out :
              /\ g.flag = {ACK}
              /\ g.payload = <<>>
              /\ g.seq = c.iss + 1
              /\ g.ack = a.seq + 1
C6_ConnectReturns ==
    /\ \A c \in hist.created :
          th[c.t].key = c.id => C6_Opened(c)
    /\ \A c \in hist.created :
          (\/ event[CLIENT_IP] = TCPEvent(c.id, ConnectionCompleted)
           \/ (pubq[CLIENT_IP] # <<>>
               /\ Head(pubq[CLIENT_IP]) = TCPEvent(c.id, ConnectionCompleted)))
          => \E a \in hist.active : a.id = c.id

\* C7: a SYN without ACK that is routed to a LISTEN socket inserts exactly
\* one socket, under (listener's address, source address, listener's port,
\* source port), in SYN_RCVD with recv.next = seq + 1, send.unacked_seq = ISS,
\* send.next = ISS + 1, emits SYN|ACK (seq = ISS, ack = seq + 1) and leaves
\* the listener as it was; a later ACK segment for that key with
\* send.unacked_seq <= ack <= send.next makes the socket ESTABLISHED, appends
\* its key to the listener's queue and publishes ConnectionCompleted on the
\* listener's key
C7_Syn(tb, tb2, k, g) ==
    LET n == SockID(tb[k].local_addr, g.src_ip, tb[k].local_port, g.src) IN
    /\ n \notin DOMAIN tb
    /\ DOMAIN tb2 = DOMAIN tb \cup {n}
    /\ \A x \in DOMAIN tb : tb2[x] = tb[x]
    /\ tb2[k].status = Listen
    /\ tb2[n].status = SynRcvd
    /\ tb2[n].recv_param.next = g.seq + 1
    /\ tb2[n].send_param.unacked_seq = tb2[n].send_param.initial_seq
    /\ tb2[n].send_param.next = tb2[n].send_param.initial_seq + 1
    /\ \E p \in net' :
          /\ p.flag = {SYN, ACK}
          /\ p.src_ip = g.dst_ip /\ p.dst_ip = g.src_ip
          /\ p.src = g.dest /\ p.dest = g.src
          /\ p.seq = tb2[n].send_param.initial_seq
          /\ p.ack = g.seq + 1
C7_Ack(tb, tb2, k, h) ==
    LET l == tb[k].listening_socket IN
    /\ tb2[k].status = Established
    /\ l \in DOMAIN tb
    /\ l \in DOMAIN tb2
    /\ tb2[l].connected_connection_euque = Append(tb[l].connected_connection_euque, k)
    /\ pubq'[h] = <<TCPEvent(l, ConnectionCompleted)>>
C7_Step ==
    \A g \in net :
        LET h == g.dst_ip
            tb == sockets[h]
            tb2 == sockets'[h]
            k == Route(tb, g)
        IN
        (g \notin net' /\ k # NoKey) =>
            /\ (tb[k].status = Listen /\ SYN \in g.flag /\ ACK \notin g.flag)
                  => C7_Syn(tb, tb2, k, g)
            /\ (/\ tb[k].status = SynRcvd
                /\ tb[k].listening_socket # NoKey
                /\ ACK \in g.flag
                /\ tb[k].send_param.unacked_seq <= g.ack
                /\ g.ack <= tb[k].send_param.next)
                  => C7_Ack(tb, tb2, k, h)
C7_PassiveOpen == [][C7_Step]_vars

\* C8: the keys accept has returned are, in order, the first of the keys of
\* the endpoints that listener created, in the order in which they became
\* ESTABLISHED; no key was returned twice
C8_AcceptFifo ==
    /\ IsPrefix(hist.accepted, hist.estab)
    /\ \A i, j \in DOMAIN hist.accepted :
          i # j => hist.accepted[i].id # hist.accepted[j].id

\* C8's case: two connections completed and accept returned both keys
C8_Witness ==
    /\ Len(hist.accepted) = 2
    /\ Len(hist.estab) = 2

\* C9: under fair scheduling, whenever an accept call is pending and the
\* listener's queue holds the key of an ESTABLISHED endpoint, that accept
\* call eventually returns.  The case stated is the one where nothing is left
\* to happen on either host but the wake of the blocked calls (C9_Quiet): no
\* segment in flight, no event still to publish, nothing to retransmit, no
\* table lock poisoned
C9_Pending(t, n) ==
    /\ Len(th[t].ops) = n
    /\ At(t, "accept", "start")
    /\ LKeyOf(t) \in DOMAIN sockets[HostOf(t)]
    /\ sockets[HostOf(t)][LKeyOf(t)].connected_connection_euque # <<>>
C9_Quiet ==
    /\ net = {}
    /\ \A h \in Hosts :
          /\ pubq[h] = <<>>
          /\ \A k \in DOMAIN sockets[h] :
                sockets[h][k].retransmission_queue = <<>>
    /\ \A t \in Threads : th[t].sock = <<>>
    /\ \A h \in Hosts : ~poisoned[h]
C9_AcceptLive ==
    \A n \in 1..2 :
        (C9_Pending("s1", n) /\ C9_Quiet) ~> (Len(th["s1"].ops) < n)

\* C10: every step of send that emits a segment emits n bytes with
\* 1 <= n <= min(MSS, send.window, bytes remaining), flags ACK,
\* seq = send.next and ack = recv.next, and adds n to send.next and takes n
\* from send.window; send.window never goes below 0, whatever the number of
\* threads that send on the key
C10_Emit(t) ==
    LET h == HostOf(t)
        k == KeyOf(t)
        s == sockets[h][k]
        s2 == sockets'[h][k]
        n == s2.send_param.next - s.send_param.next
        remaining == Len(Head(th[t].ops).buf) * Unit - th[t].cursor
    IN
    /\ 1 <= n
    /\ n <= MSS
    /\ n <= s.send_param.window
    /\ n <= remaining
    /\ s.send_param.window > 0
    /\ s2.send_param.window = s.send_param.window - n
    /\ \E g \in net' :
          /\ g.flag = {ACK}
          /\ g.seq = s.send_param.next
          /\ g.ack = s.recv_param.next
          /\ PayloadLen(g) = n
          /\ g.src_ip = h /\ g.src = k[3] /\ g.dst_ip = k[2] /\ g.dest = k[4]
C10_Step ==
    /\ \A h \in Hosts : \A k \in DOMAIN sockets'[h] :
          sockets'[h][k].send_param.window >= 0
    /\ \A t \in Threads :
          (At(t, "send", "start") /\ th'[t] # th[t] /\ sockets' # sockets)
              => C10_Emit(t)
C10_SendFragments == [][C10_Step]_vars

\* C10's case: both threads have sent on the key, the window is used up and
\* a thread waits for it to reopen
C10_Witness ==
    /\ hist.sent["c1"] # <<>>
    /\ hist.sent["c2"] # <<>>
    /\ \E t \in Threads : At(t, "send", "send_wait")
    /\ \E k \in DOMAIN sockets[CLIENT_IP] :
          sockets[CLIENT_IP][k].send_param.window = 0

\* C11: in every reachable state, for every ESTABLISHED endpoint,
\* send.window plus the payload bytes of the entries in its retransmission
\* queue is the send window fixed at the handshake (4380, what the peer's
\* SYN or SYN|ACK advertised)
RECURSIVE C11_Queued(_)
C11_Queued(q) ==
    IF q = <<>> THEN 0 ELSE PayloadLen(Head(q).packet) + C11_Queued(Tail(q))
C11_WindowConserved ==
    \A h \in Hosts : \A k \in DOMAIN sockets[h] :
        LET s == sockets[h][k] IN
        s.status = Established =>
            s.send_param.window + C11_Queued(s.retransmission_queue)
                = SOCKET_BUFFER_SIZE

\* C20: every retransmission-queue entry has 1 <= transmission_count <= 5;
\* a step that raises the count of an entry of an endpoint raises it by one
\* for that entry only, the entry was unacknowledged (seq >= send.unacked_seq)
\* and an RTO old, every entry before it left the queue in that step (it was
\* at the head when it was sent), its segment is on the wire, it is now the
\* last of the queue and the entries behind it are as they were
C20_Counts(q) ==
    \A i \in DOMAIN q :
        /\ 1 <= q[i].transmission_count
        /\ q[i].transmission_count <= MAX_TRANSMITTION
C20_Resent(q, q2) ==
    {i \in DOMAIN q : \E j \in DOMAIN q2 :
        /\ q2[j].packet = q[i].packet
        /\ q2[j].transmission_count > q[i].transmission_count}
C20_Tick(s, s2) ==
    LET q == s.retransmission_queue
        q2 == s2.retransmission_queue
    IN
    \A i \in C20_Resent(q, q2) :
        /\ C20_Resent(q, q2) = {i}
        /\ q[i].old
        /\ q[i].packet.seq >= s.send_param.unacked_seq
        /\ q[i].packet \in net'
        /\ q2 = SubSeq(q, i + 1, Len(q))
                  \o <<[q[i] EXCEPT !.transmission_count = @ + 1, !.old = FALSE]>>
C20_Step ==
    /\ \A h \in Hosts : \A k \in DOMAIN sockets'[h] :
          C20_Counts(sockets'[h][k].retransmission_queue)
    /\ \A t \in Threads :
          th'[t].sock # <<>> => C20_Counts(th'[t].sock[1].retransmission_queue)
    /\ \A h \in Hosts : \A k \in DOMAIN sockets[h] \cap DOMAIN sockets'[h] :
          C20_Tick(sockets[h][k], sockets'[h][k])
C12_Blocked(t) ==
    /\ At(t, "send", "send_wait")
    /\ KeyOf(t) \in DOMAIN sockets[HostOf(t)]
    /\ sockets[HostOf(t)][KeyOf(t)].send_param.window > 0
C12_SendLive ==
    (C12_Blocked("c1") /\ C9_Quiet) ~> ~At("c1", "send", "send_wait")

\* C13: a step of recv returns 0 only when the endpoint holds no data
\* (recv.window = 4380) and its state is CLOSE_WAIT, LAST_ACK or TIME_WAIT;
\* it goes to wait only when the endpoint holds no data and is in none of
\* these states; otherwise it returns n = min(buffer length, bytes held)
\* >= 1 bytes and gives n back to recv.window; and under fair scheduling a
\* recv that waits on an endpoint that the peer's FIN has moved to CLOSE_WAIT
\* eventually returns
C13_Call(t) ==
    LET h == HostOf(t)
        k == KeyOf(t)
        s == sockets[h][k]
        held == SOCKET_BUFFER_SIZE - s.recv_param.window
        n == sockets'[h][k].recv_param.window - s.recv_param.window
        got == (Len(hist'.recvd[t]) - Len(hist.recvd[t])) * Unit
    IN
    IF th'[t].pc = "recv_wait"
    THEN held = 0 /\ s.status \notin {CloseWait, LastAck, TimeWait}
    ELSE /\ th'[t].pc = "start"
         /\ got = n
         /\ \E buflen \in RecvSizes : n = Min(buflen, held)
         /\ n = 0 => s.status \in {CloseWait, LastAck, TimeWait}
         /\ n = 0 => Len(th'[t].ops) < Len(th[t].ops)
         /\ held > 0 => n >= 1
C13_Step ==
    \A t \in Threads :
        (/\ At(t, "recv", "start")
         /\ th'[t] # th[t]
         /\ KeyOf(t) \in DOMAIN sockets[HostOf(t)])
            => C13_Call(t)
C13_Waiting(t) ==
    /\ At(t, "recv", "recv_wait")
    /\ KeyOf(t) \in DOMAIN sockets[HostOf(t)]
    /\ sockets[HostOf(t)][KeyOf(t)].status = CloseWait
C13_Recv ==
    /\ [][C13_Step]_vars
    /\ (C13_Waiting("s1") /\ C9_Quiet) ~> ~At("s1", "recv", "recv_wait")

\* C14: a step of close on an ESTABLISHED endpoint emits FIN|ACK with
\* seq = the old send.next, adds 1 to send.next and sets FIN_WAIT_1; a step
\* on a FIN_WAIT_1 endpoint leaves it in FIN_WAIT_2 exactly when it leaves
\* send.unacked_seq = send.next; a segment with FIN handled in FIN_WAIT_1 or
\* FIN_WAIT_2 emits the ACK-only answer and publishes ConnectionClosed; and
\* under fair scheduling the close call that waits on an endpoint that has
\* counted the peer's FIN eventually returns with the endpoint removed
C14_Close(t) ==
    LET h == HostOf(t)
        k == CloseKey(t)
        s == sockets[h][k]
        s2 == sockets'[h][k]
    IN
    /\ k \in DOMAIN sockets'[h]
    /\ s2.status = FinWait1
    /\ s2.send_param.next = s.send_param.next + 1
    /\ th'[t].pc = "close_wait"
    /\ \E g \in net' :
          /\ g.flag = {FIN, ACK}
          /\ g.seq = s.send_param.next
          /\ g.ack = s.recv_param.next
          /\ get_sock_id(s) = SockID(g.src_ip, g.dst_ip, g.src, g.dest)
C14_Fin(h, k) ==
    /\ PureAck(sockets'[h][k]) \in net'
    /\ pubq'[h] # <<>>
    /\ pubq'[h][Len(pubq'[h])] = TCPEvent(k, ConnectionClosed)
C14_Step ==
    /\ \A t \in Threads :
          (/\ At(t, "close", "start")
           /\ th'[t] # th[t]
           /\ CloseKey(t) \in DOMAIN sockets[HostOf(t)]
           /\ sockets[HostOf(t)][CloseKey(t)].status = Established)
              => C14_Close(t)
    /\ \A h \in Hosts : \A k \in DOMAIN sockets[h] \cap DOMAIN sockets'[h] :
          sockets[h][k].status = FinWait1 =>
              (sockets'[h][k].status = FinWait2
                  <=> sockets'[h][k].send_param.unacked_seq
                          = sockets'[h][k].send_param.next)
    /\ \A g \in net :
          LET h == g.dst_ip
              k == Route(sockets[h], g)
          IN (/\ g \notin net'
              /\ k # NoKey
              /\ sockets[h][k].status \in {FinWait1, FinWait2}
              /\ FIN \in g.flag
              /\ g.ack <= sockets[h][k].send_param.next)
                 => C14_Fin(h, k)
C14_FinCounted(t) ==
    LET h == HostOf(t)
        k == CloseKey(t)
    IN
    /\ At(t, "close", "close_wait")
    /\ k \in DOMAIN sockets[h]
    /\ sockets[h][k].status \in {FinWait1, FinWait2}
    /\ sockets[h][k].recv_param.next > sockets[h][k].recv_param.initial_seq + 1
C14_ActiveClose ==
    /\ [][C14_Step]_vars
    /\ (C14_FinCounted("c1") /\ C9_Quiet)
          ~> (th["c1"].ops = <<>> /\ th["c1"].key \notin DOMAIN sockets[CLIENT_IP])

\* C15: a step of close on a CLOSE_WAIT endpoint emits FIN|ACK with
\* seq = the old send.next, adds 1 to send.next and sets LAST_ACK; a tick of
\* the timer on a LAST_ACK endpoint whose send.unacked_seq is past its queued
\* FIN removes that entry and publishes ConnectionClosed; and under fair
\* scheduling the close call that waits on a LAST_ACK endpoint whose FIN is
\* recorded as acknowledged eventually returns with the endpoint removed,
\* older data segments queued or retransmitted around the FIN or not
C15_Close(t) ==
    LET h == HostOf(t)
        k == CloseKey(t)
        s == sockets[h][k]
        s2 == sockets'[h][k]
    IN
    /\ k \in DOMAIN sockets'[h]
    /\ s2.status = LastAck
    /\ s2.send_param.next = s.send_param.next + 1
    /\ th'[t].pc = "close_wait"
    /\ \E g \in net' :
          /\ g.flag = {FIN, ACK}
          /\ g.seq = s.send_param.next
          /\ g.ack = s.recv_param.next
          /\ get_sock_id(s) = SockID(g.src_ip, g.dst_ip, g.src, g.dest)
C15_FinAcked(q, una) ==
    {i \in DOMAIN q : FIN \in q[i].packet.flag /\ q[i].packet.seq < una}
C15_Packets(q) == [i \in DOMAIN q |-> q[i].packet]
C15_Drain(h, k) ==
    LET s == sockets[h][k]
        s2 == sockets'[h][k]
    IN
    (/\ s.status = LastAck
     /\ C15_FinAcked(s.retransmission_queue, s.send_param.unacked_seq) # {}
     /\ C15_Packets(s2.retransmission_queue) # C15_Packets(s.retransmission_queue))
        => /\ C15_FinAcked(s2.retransmission_queue, s2.send_param.unacked_seq) = {}
           /\ \E i \in DOMAIN pubq'[h] :
                 pubq'[h][i] = TCPEvent(k, ConnectionClosed)
C15_Step ==
    /\ \A t \in Threads :
          (/\ At(t, "close", "start")
           /\ th'[t] # th[t]
           /\ CloseKey(t) \in DOMAIN sockets[HostOf(t)]
           /\ sockets[HostOf(t)][CloseKey(t)].status = CloseWait)
              => C15_Close(t)
    /\ \A h \in Hosts : \A k \in DOMAIN sockets[h] \cap DOMAIN sockets'[h] :
          C15_Drain(h, k)
C15_AckRecorded(t) ==
    LET h == HostOf(t)
        k == CloseKey(t)
    IN
    /\ At(t, "close", "close_wait")
    /\ k \in DOMAIN sockets[h]
    /\ sockets[h][k].status = LastAck
    /\ sockets[h][k].send_param.unacked_seq = sockets[h][k].send_param.next
C15_PassiveClose ==
    /\ [][C15_Step]_vars
    /\ (C15_AckRecorded("s1") /\ C9_Quiet)
          ~> (th["s1"].ops = <<>> /\ th["s1"].key \notin DOMAIN sockets[SERVER_IP])

\* C16: a step of close on an endpoint that is in the table in a state
\* other than ESTABLISHED, CLOSE_WAIT and LISTEN returns at once and leaves
\* the endpoint in the table with its state, its send.next and its
\* retransmission queue as they were
C16_Other(t) ==
    /\ At(t, "close", "start")
    /\ th'[t] # th[t]
    /\ CloseKey(t) \in DOMAIN sockets[HostOf(t)]
    /\ sockets[HostOf(t)][CloseKey(t)].status \notin {Established, CloseWait, Listen}
C16_Step ==
    \A t \in Threads :
        C16_Other(t) =>
            LET h == HostOf(t)
                k == CloseKey(t)
                s == sockets[h][k]
            IN
            /\ th'[t] = Return(th[t])
            /\ k \in DOMAIN sockets'[h]
            /\ sockets'[h][k].status = s.status
            /\ sockets'[h][k].send_param.next = s.send_param.next
            /\ sockets'[h][k].retransmission_queue = s.retransmission_queue
C16_CloseNoOp == [][C16_Step]_vars

\* C19: when connect inserts its endpoint, the local port it selected is in
\* [40000, 60000) and is the local port of no endpoint in the table, and the
\* table holds nothing under the new key, so the insert overwrites nothing
C19_Inserts(t) ==
    /\ At(t, "connect", "connect_insert")
    /\ th'[t].pc = "connect_wait"
C19_Step ==
    \A t \in Threads :
        C19_Inserts(t) =>
            LET tb == sockets[HostOf(t)]
                local_port == th[t].sock[1].local_port
            IN
            /\ local_port >= PORT_RANGE_START
            /\ local_port < PORT_RANGE_END
            /\ \A k \in DOMAIN tb : tb[k].local_port # local_port
            /\ th[t].id \notin DOMAIN tb
C19_FreshPort == [][C19_Step]_vars

\* C18: a step of send, recv or close, at the call or after a wait, with a
\* key that is not in the table fails with NoSuchSocket and leaves the table
\* and the wire as they were; and an accept called with a key that is not
\* in the table fails with NoSuchSocket
C18_Key(t) ==
    IF Head(th[t].ops).op = "close" THEN CloseKey(t) ELSE KeyOf(t)
C18_Unknown(t) ==
    /\ \/ At(t, "send", "start")
       \/ At(t, "recv", "start")
       \/ At(t, "close", "start")
    /\ th'[t] # th[t]
    /\ C18_Key(t) \notin DOMAIN sockets[HostOf(t)]
C18_Step ==
    \A t \in Threads :
        C18_Unknown(t) =>
            /\ th'[t] = Fail(th[t], NoSuchSocket)
            /\ sockets' = sockets
            /\ net' = net
C18_AcceptUnknown(t) ==
    /\ At(t, "accept", "start")
    /\ LKeyOf(t) # NoKey
    /\ LKeyOf(t) \notin DOMAIN sockets[HostOf(t)]
C18_NoSuchSocket ==
    /\ [][C18_Step]_vars
    /\ C18_AcceptUnknown("s1") ~> (th["s1"].ret = NoSuchSocket)

\* C17: a step in which an unacknowledged FIN-bearing entry leaves the
\* retransmission queue of an endpoint in FIN_WAIT_1, FIN_WAIT_2 or LAST_ACK
\* is one in which the entry had been transmitted MAX_TRANSMITTION times and
\* was an RTO old, and ConnectionClosed is published for the key; and once
\* the peer has stopped, a close that waits in one of these states returns
\* with the endpoint removed
C17_Closing == {FinWait1, FinWait2, LastAck}
C17_Dropped(h, k, e) ==
    /\ FIN \in e.packet.flag
    /\ sockets[h][k].send_param.unacked_seq <= e.packet.seq
    /\ k \in DOMAIN sockets'[h]
    /\ sockets'[h][k].send_param.unacked_seq <= e.packet.seq
    /\ \A j \in DOMAIN sockets'[h][k].retransmission_queue :
          sockets'[h][k].retransmission_queue[j].packet # e.packet
C17_Step ==
    \A h \in Hosts : \A k \in DOMAIN sockets[h] :
        \A i \in DOMAIN sockets[h][k].retransmission_queue :
            LET e == sockets[h][k].retransmission_queue[i] IN
            (sockets[h][k].status \in C17_Closing /\ C17_Dropped(h, k, e)) =>
                /\ e.transmission_count = MAX_TRANSMITTION
                /\ e.old
                /\ \E j \in DOMAIN pubq'[h] :
                      pubq'[h][j] = TCPEvent(k, ConnectionClosed)
C17_PeerOf(t) == IF HostOf(t) = CLIENT_IP THEN SERVER_IP ELSE CLIENT_IP
C17_Waiting(t) ==
    /\ At(t, "close", "close_wait")
    /\ KeyOf(t) \in DOMAIN sockets[HostOf(t)]
    /\ sockets[HostOf(t)][KeyOf(t)].status \in C17_Closing
    /\ poisoned[C17_PeerOf(t)]
C17_Closed(t) ==
    /\ th[t].ops = <<>>
    /\ KeyOf(t) \notin DOMAIN sockets[HostOf(t)]
C17_CloseEnds ==
    /\ [][C17_Step]_vars
    /\ \A t \in {"c1", "s1"} : C17_Waiting(t) ~> C17_Closed(t)

\* C21: a pass of the timer in which the transport fails for the entry it
\* retransmits leaves the table lock usable and leaves that entry, which is
\* the first unacknowledged one of its queue, in the queue
C21_Unacked(q, una) ==
    {q[i].packet : i \in {j \in DOMAIN q : una <= q[j].packet.seq}}
C21_Step ==
    \A h \in Hosts :
        TimerSendFails(h) =>
            /\ ~poisoned'[h]
            /\ \A k \in DOMAIN sockets[h] :
                  /\ k \in DOMAIN sockets'[h]
                  /\ C21_Unacked(sockets[h][k].retransmission_queue,
                                 sockets[h][k].send_param.unacked_seq)
                        \subseteq
                     C21_Unacked(sockets'[h][k].retransmission_queue,
                                 sockets[h][k].send_param.unacked_seq)
C21_Transient == [][C21_Step]_vars

\* C22: a thread that waits on the event bus (in connect, accept, send,
\* recv or close) does not hold the table lock, a step that ends a wait
\* touches no endpoint (the endpoint is looked up again by the step after
\* it), and on every instance whose lock is not poisoned the table lock
\* is free again and again, so the receive thread and the timer thread are
\* never shut out
C22_Waits(t) ==
    \/ At(t, "connect", "connect_wait")
    \/ At(t, "accept", "start")
    \/ At(t, "send", "send_wait")
    \/ At(t, "recv", "recv_wait")
    \/ At(t, "close", "close_wait")
C22_NoGuard == \A t \in Threads : C22_Waits(t) => ~TableGuard(t)
C22_Wake ==
    \A t \in Threads :
        (C22_Waits(t) /\ th'[t] # th[t]) => sockets' = sockets
C23_States == {Established, FinWait1, FinWait2, CloseWait, LastAck}
C23_Taken(h, k) ==
    {g \in net \ net' : g.dst_ip = h /\ Route(sockets[h], g) = k}
C23_On(S) ==
    \A h \in Hosts : \A k \in DOMAIN sockets[h] \cap DOMAIN sockets'[h] :
        LET s == sockets[h][k]
            una == s.send_param.unacked_seq
        IN
        s.status \in S =>
            /\ sockets'[h][k].send_param.unacked_seq # una
                  => \E g \in C23_Taken(h, k) :
                        /\ una < g.ack
                        /\ g.ack <= s.send_param.next
                        /\ sockets'[h][k].send_param.unacked_seq = g.ack
            /\ \A g \in C23_Taken(h, k) :
                  g.ack > s.send_param.next
                  => /\ sockets'[h][k] = s
                     /\ pubq' = pubq
                     /\ net' = net \ {g}
C23_Step == C23_On(C23_States)
C23_AckRange == [][C23_Step]_vars

\* C24: the step that takes a segment off the wire is the handler of the
\* endpoint under the segment's exact four-tuple if the table holds one,
\* else that of the listening socket under (dst_ip, 0.0.0.0, dst_port, 0);
\* with neither, or with the ACK bit set on a segment that reaches a LISTEN
\* endpoint, the table, the events and the wire are left as they were; and
\* a key is added to the table only if it is the segment's four-tuple and
\* was not in the table
C24_Exact(g) == SockID(g.dst_ip, g.src_ip, g.dest, g.src)
C24_Listener(g) == SockID(g.dst_ip, UNDETERMINED_IP_ADDR, g.dest, UNDETERMINED_PORT)
C24_Dropped(g) ==
    /\ sockets' = sockets
    /\ pubq' = pubq
    /\ net' = net \ {g}
C24_HandledBy(g, k) ==
    \E iss \in ListenSeqs \cup {0} :
        LET r == Dispatch(sockets[g.dst_ip], k, g, iss) IN
        /\ sockets'[g.dst_ip] = r.tb
        /\ pubq'[g.dst_ip] = r.pubs
        /\ net' = (net \ {g}) \cup Wire(r.out)
C24_Step ==
    \A g \in net \ net' :
        LET tb == sockets[g.dst_ip]
            tb2 == sockets'[g.dst_ip]
        IN
        /\ IF C24_Exact(g) \in DOMAIN tb
           THEN C24_HandledBy(g, C24_Exact(g))
           ELSE IF C24_Listener(g) \in DOMAIN tb
           THEN /\ C24_HandledBy(g, C24_Listener(g))
                /\ (tb[C24_Listener(g)].status = Listen /\ ACK \in g.flag)
                      => C24_Dropped(g)
           ELSE C24_Dropped(g)
        /\ DOMAIN tb2 # DOMAIN tb
              => /\ C24_Exact(g) \notin DOMAIN tb
                 /\ DOMAIN tb2 = DOMAIN tb \cup {C24_Exact(g)}
C24_Routing == [][C24_Step]_vars

\* C24's case: a connection was completed through the endpoint under its own
\* four-tuple while the listening socket was in the table, that endpoint is
\* gone, and a segment with the ACK bit for it is about to reach the
\* listening socket
C24_Witness ==
    /\ hist.estab # <<>>
    /\ \E g \in net :
          /\ g.dst_ip = SERVER_IP
          /\ ACK \in g.flag
          /\ C24_Exact(g) \notin DOMAIN sockets[SERVER_IP]
          /\ C24_Listener(g) \in DOMAIN sockets[SERVER_IP]

\* C25: a payload segment with seg.seq > recv.next is stored at offset
\* (4380 - recv.window) + (seg.seq - recv.next), raises recv.tail to
\* max(recv.tail, seg.seq + copied) and leaves recv.next and recv.window as
\* they were; a payload segment with seg.seq = recv.next is stored the same
\* way, sets recv.next to recv.tail and lowers recv.window by
\* recv.tail - seg.seq; every cell of the buffer that a segment was copied to
\* holds the bytes of the sequence number of its position, and recv returns
\* the front of the buffer, so the bytes of the segments come out in
\* sequence order
C25_Copied(s, g) ==
    Min(PayloadLen(g),
        SOCKET_BUFFER_SIZE
          - (SOCKET_BUFFER_SIZE - s.recv_param.window + (g.seq - s.recv_param.next)))
C25_Stored(s, s2, g) ==
    LET first == (SOCKET_BUFFER_SIZE - s.recv_param.window
                    + (g.seq - s.recv_param.next)) \div Unit
    IN
    /\ s2.recv_param.tail = Max(s.recv_param.tail, g.seq + C25_Copied(s, g))
    /\ \A i \in 1..(C25_Copied(s, g) \div Unit) :
          s2.recv_buffer[first + i] = g.payload[i]
C25_Payload(h, g) ==
    LET k == SockID(g.dst_ip, g.src_ip, g.dest, g.src) IN
    /\ g.dst_ip = h
    /\ g.payload # <<>>
    /\ ACK \in g.flag
    /\ k \in DOMAIN sockets[h]
    /\ k \in DOMAIN sockets'[h]
    /\ sockets[h][k].status \in {Established, FinWait1, FinWait2}
    /\ g.ack <= sockets[h][k].send_param.next
    /\ g.seq >= sockets[h][k].recv_param.next
    /\ ~poisoned'[h]
C25_Step ==
    /\ \A h \in Hosts : \A g \in net \ net' :
          C25_Payload(h, g) =>
              LET k == SockID(g.dst_ip, g.src_ip, g.dest, g.src)
                  s == sockets[h][k]
                  s2 == sockets'[h][k]
              IN
              /\ C25_Stored(s, s2, g)
              /\ g.seq > s.recv_param.next
                    => /\ s2.recv_param.next = s.recv_param.next
                       /\ s2.recv_param.window = s.recv_param.window
              /\ g.seq = s.recv_param.next
                    => /\ s2.recv_param.next = s2.recv_param.tail
                       /\ s2.recv_param.window =
                             s.recv_param.window - (s2.recv_param.tail - g.seq)
    /\ \A t \in Threads :
          hist'.recvd[t] # hist.recvd[t]
              => \E n \in 1..BufCells :
                    hist'.recvd[t] = hist.recvd[t]
                        \o SubSeq(sockets[HostOf(t)][KeyOf(t)].recv_buffer, 1, n)
C25_SeqOfCell(s, i) ==
    s.recv_param.next - (SOCKET_BUFFER_SIZE - s.recv_param.window) + (i - 1) * Unit
C25_InPlace ==
    \A h \in Hosts : \A k \in DOMAIN sockets[h] :
        LET s == sockets[h][k] IN
        \A i \in 1..BufCells :
            s.filled[i] =>
                s.recv_buffer[i]
                  = (C25_SeqOfCell(s, i) - (s.recv_param.initial_seq + 1)) \div Unit + 1
C25_Reassembly == []C25_InPlace /\ [][C25_Step]_vars

\* C25's case: a segment was stored beyond recv.next, and the segment with
\* seg.seq = recv.next that ends where the stored one begins is arriving
C25_Witness ==
    \E k \in DOMAIN sockets[SERVER_IP] :
        LET s == sockets[SERVER_IP][k] IN
        /\ s.status = Established
        /\ s.recv_param.tail > s.recv_param.next
        /\ \E g \in net :
              /\ SockID(g.dst_ip, g.src_ip, g.dest, g.src) = k
              /\ g.seq = s.recv_param.next
              /\ g.payload # <<>>
              /\ \E i \in 1..BufCells :
                    /\ s.filled[i]
                    /\ C25_SeqOfCell(s, i) = g.seq + PayloadLen(g)

\* C26: whenever a segment's payload is handed to process_payload,
\* seg.seq >= recv.next and
\* place = (4380 - recv.window) + (seg.seq - recv.next) <= 4380; and no
\* step that takes a segment off the wire makes the receive thread fail
C26_Processed(h, g) ==
    LET k == SockID(g.dst_ip, g.src_ip, g.dest, g.src) IN
    /\ g.dst_ip = h
    /\ g.payload # <<>>
    /\ k \in DOMAIN sockets[h]
    /\ \/ sockets[h][k].status = Established /\ ACK \in g.flag
       \/ sockets[h][k].status \in {FinWait1, FinWait2}
    /\ g.ack <= sockets[h][k].send_param.next
C26_Step ==
    \A h \in Hosts : \A g \in net \ net' :
        /\ poisoned'[h] = poisoned[h]
        /\ C26_Processed(h, g) =>
              LET rp == sockets[h][SockID(g.dst_ip, g.src_ip, g.dest, g.src)].recv_param IN
              /\ g.seq >= rp.next
              /\ (SOCKET_BUFFER_SIZE - rp.window) + (g.seq - rp.next)
                    <= SOCKET_BUFFER_SIZE
C26_PlaceInBuffer == [][C26_Step]_vars

\* C27: the bytes recv.next has moved over and recv has not yet returned
\* (the front 4380 - recv.window bytes of the buffer) were all copied there
\* from segments, and recv has returned no byte that no segment carried
C27_Readable(s) == (SOCKET_BUFFER_SIZE - s.recv_param.window) \div Unit
C27_NoGap ==
    /\ \A h \in Hosts : \A k \in DOMAIN sockets[h] :
          \A i \in 1..BufCells :
              i <= C27_Readable(sockets[h][k]) => sockets[h][k].filled[i]
    /\ \A t \in Threads : \A i \in DOMAIN hist.recvd[t] :
          hist.recvd[t][i] # 0

\* C28: after every step, every endpoint whose listening_socket is set names
\* a key that is in the table in state LISTEN, and a step in which a SYN_RCVD
\* endpoint takes the ACK that completes its handshake finds that listening
\* socket, publishes ConnectionCompleted on it and does not fail
C28_Linked ==
    \A h \in Hosts : \A k \in DOMAIN sockets[h] :
        LET id == sockets[h][k].listening_socket IN
        id # NoKey =>
            /\ id \in DOMAIN sockets[h]
            /\ sockets[h][id].status = Listen
C28_Completes(h, g) ==
    LET k == SockID(g.dst_ip, g.src_ip, g.dest, g.src) IN
    /\ g.dst_ip = h
    /\ k \in DOMAIN sockets[h]
    /\ sockets[h][k].status = SynRcvd
    /\ sockets[h][k].listening_socket # NoKey
    /\ ACK \in g.flag
    /\ sockets[h][k].send_param.unacked_seq <= g.ack
    /\ g.ack <= sockets[h][k].send_param.next
C28_Step ==
    \A h \in Hosts : \A g \in net \ net' :
        C28_Completes(h, g) =>
            /\ ~poisoned'[h]
            /\ pubq'[h] = <<TCPEvent(sockets[h][C24_Exact(g)].listening_socket,
                                     ConnectionCompleted)>>
C28_ListenerFound == [][C28_Linked' /\ C28_Step]_vars

\* C29: in every step the state of the endpoint under a key changes only
\* along SYN_SENT -> ESTABLISHED, SYN_SENT -> SYN_RCVD, SYN_RCVD ->
\* ESTABLISHED, ESTABLISHED -> FIN_WAIT_1, ESTABLISHED -> CLOSE_WAIT,
\* FIN_WAIT_1 -> FIN_WAIT_2 and CLOSE_WAIT -> LAST_ACK, so a LISTEN endpoint
\* keeps its state; no endpoint is in TIME_WAIT; and an endpoint is in LISTEN
\* exactly when its key has remote IP 0.0.0.0 and remote port 0
C29_Edges ==
    { <<SynSent, Established>>, <<SynSent, SynRcvd>>,
      <<SynRcvd, Established>>, <<Established, FinWait1>>,
      <<Established, CloseWait>>, <<FinWait1, FinWait2>>,
      <<CloseWait, LastAck>> }
C29_Changed(h, k) ==
    /\ k \in DOMAIN sockets[h]
    /\ k \in DOMAIN sockets'[h]
    /\ sockets'[h][k].status # sockets[h][k].status
C29_Step ==
    \A h \in Hosts : \A k \in DOMAIN sockets[h] :
        C29_Changed(h, k) =>
            <<sockets[h][k].status, sockets'[h][k].status>> \in C29_Edges
C29_Shape ==
    \A h \in Hosts : \A k \in DOMAIN sockets[h] :
        /\ sockets[h][k].status # TimeWait
        /\ sockets[h][k].status = Listen
               <=> (k[2] = UNDETERMINED_IP_ADDR /\ k[4] = UNDETERMINED_PORT)
C29_StateEdges == [][C29_Step /\ C29_Shape']_vars

=============================================================================
